---- MODULE Spec2Model ----
(***************************************************************************)
(* smart-cache: the #[cached] attribute macro (smart-cache-macro/src/lib.rs)*)
(* and the process-wide redb store behind it (smart-cache/src/lib.rs).      *)
(*                                                                         *)
(* A crate is a set of function items carrying #[cached].  The macro        *)
(* expands each item (purity check, fingerprint, wrapper body); the         *)
(* compiler then builds the crate.  At run time every thread executes the   *)
(* wrapper body: build the key, get_cached, decode on a hit, otherwise      *)
(* inner, encode, set_cached.  The store file outlives the process, so a    *)
(* run may start on entries that an earlier build of the program committed. *)
(***************************************************************************)
EXTENDS Integers, Sequences, FiniteSets, TLC

VARIABLES program, reg, binary, proc, callers, fs, db, committed, writer, pending,
          pc, cur, last, snap, ncalls, hist

vars == <<program, reg, binary, proc, callers, fs, db, committed, writer, pending,
          pc, cur, last, snap, ncalls, hist>>

(***************************************************************************)
(* Bounds of the model.                                                    *)
(***************************************************************************)
\* radix of one modelled byte (a byte takes the values 0 .. ByteBase-1)
ByteBase == 2
\* largest argument value a call is made with
MaxArg == 1
\* calls made in one run of the process, over all threads
MaxCalls == 2
\* longest value, in bytes, found in the store file when the process starts
MaxStaleLen == 2
\* largest address an argument passed by reference lives at
MaxAddr == 1
\* processes started one after the other on the same store file, after the first
MaxRestarts == 1
\* largest input of the recursive function
MaxFib == 2

\* bytes of an archived return value (a fixed-width integer)
ValueWidth == 2
\* bytes of the function hash carried in the key
DigestLen == 3

Threads == {"t1", "t2"}
Args == 0 .. MaxArg
Addrs == 0 .. MaxAddr
Byte == 0 .. (ByteBase - 1)

RECURSIVE Pow(_, _)
Pow(b, n) == IF n = 0 THEN 1 ELSE b * Pow(b, n - 1)

(***************************************************************************)
(* Serialization codec (rkyv::to_bytes / rkyv::access / rkyv::deserialize). *)
(* A value is archived little-endian in a fixed number of bytes.  access    *)
(* validates the buffer: it fails when the buffer cannot hold the archived  *)
(* root, and otherwise reads the root from the END of the buffer.           *)
(***************************************************************************)
RECURSIVE ToBytes(_, _)
ToBytes(v, n) == IF n = 0 THEN <<>> ELSE <<v % ByteBase>> \o ToBytes(v \div ByteBase, n - 1)

RECURSIVE FromBytes(_)
FromBytes(bs) == IF bs = <<>> THEN 0 ELSE Head(bs) + ByteBase * FromBytes(Tail(bs))

\* rkyv::to_bytes(&result)
EncodeValue(v) == ToBytes(v % Pow(ByteBase, ValueWidth), ValueWidth)

\* rkyv::access::<Archived<R>>(bytes): Ok iff the buffer holds an archived root
AccessOk(bs) == Len(bs) >= ValueWidth

\* rkyv::deserialize of the accessed root
DecodeValue(bs) == FromBytes(SubSeq(bs, Len(bs) - ValueWidth + 1, Len(bs)))

(***************************************************************************)
(* Function items.  A parameter is a receiver or a typed pattern; its type  *)
(* is a reference (with or without `mut`) or anything else.                 *)
(***************************************************************************)
Typed(isRef, isMut) == [arg |-> "typed", ref |-> isRef, mut |-> isMut]
Receiver(isRef, isMut) == [arg |-> "receiver", ref |-> isRef, mut |-> isMut]

\* the items of the repository's tests, a method taking `&mut self`, and
\* pure_function after an edit of its body (same name, `*x + 2`)
Items ==
  [ pure_function   |-> [name |-> "pure_function", params |-> <<Typed(TRUE, FALSE)>>,
                         body |-> "inc"],
    pure_function_edited |-> [name |-> "pure_function", params |-> <<Typed(TRUE, FALSE)>>,
                              body |-> "add2"],
    unit            |-> [name |-> "unit", params |-> <<Typed(FALSE, FALSE)>>, body |-> "id"],
    takes_ref       |-> [name |-> "takes_ref", params |-> <<Typed(FALSE, FALSE)>>, body |-> "id"],
    fibonacci       |-> [name |-> "fibonacci", params |-> <<Typed(FALSE, FALSE)>>, body |-> "fib"],
    impure_function |-> [name |-> "impure_function", params |-> <<Typed(TRUE, TRUE)>>,
                         body |-> "inc"],
    bump            |-> [name |-> "bump", params |-> <<Receiver(TRUE, TRUE), Typed(FALSE, FALSE)>>,
                         body |-> "inc"] ]

FnNames == DOMAIN Items

\* the addresses the argument of a call of item f is passed at: an argument
\* passed by value is moved into the call
ByRef(f) == Items[f].params[Len(Items[f].params)].ref
AddrsOf(f) == IF ByRef(f) THEN Addrs ELSE {0}

\* the argument values a call of item f is made with
ArgsOf(f) == IF Items[f].body = "fib" THEN 0 .. MaxFib ELSE Args

\* the crates the model builds: one that compiles, one per rejected item
Programs == { {"pure_function", "unit"},
              {"pure_function", "impure_function"},
              {"unit", "bump"} }

\* crates whose runs share one store file over restarts and rebuilds
LifePrograms == { {"pure_function", "unit"}, {"unit", "takes_ref"} }

\* the item that an edit of the source puts in the place of an item
Edits == [pure_function |-> "pure_function_edited"]

\* basic.rs:4-8: match n { 0 => 0, 1 => 1, n => fibonacci(n - 1) + fibonacci(n - 2) }
RECURSIVE Fib(_)
Fib(n) == IF n <= 1 THEN n ELSE Fib(n - 1) + Fib(n - 2)

\* the value the body of the item computes on one argument (the function `inner`)
inner(f, a) ==
  CASE Items[f].body = "inc"  -> a + 1
    [] Items[f].body = "add2" -> a + 2
    [] Items[f].body = "id"   -> a
    [] Items[f].body = "fib"  -> Fib(a)

\* faulty variant: the body calls the nested fn inner, not the cached function
SubCallsNone(f, a) == <<>>

\* the arguments of the cached calls the body of f makes on argument a, in
\* evaluation order
SubCalls(f, a) == IF Items[f].body = "fib" /\ a >= 2 THEN <<a - 1, a - 2>> ELSE <<>>

\* the value the body returns once its cached calls returned the values subs
Body(f, a, subs) ==
  IF SubCalls(f, a) = <<>> THEN inner(f, a) ELSE subs[1] + subs[2]

\* a parameter that aliases mutable state: `&mut T` or `&mut self`
IsMutableAlias(p) == p.ref /\ p.mut
HasMutableAlias(f) == \E i \in DOMAIN Items[f].params : IsMutableAlias(Items[f].params[i])
HasReceiver(f) == \E i \in DOMAIN Items[f].params : Items[f].params[i].arg = "receiver"

(***************************************************************************)
(* The macro (smart-cache-macro/src/lib.rs).                               *)
(***************************************************************************)
\* Err at the first typed parameter whose type is a `&mut` reference
RECURSIVE check_for_mutable_refs(_)
check_for_mutable_refs(fn_inputs) ==
  IF fn_inputs = <<>> THEN "Ok"
  ELSE LET arg == Head(fn_inputs) IN
       IF arg.arg # "typed" THEN check_for_mutable_refs(Tail(fn_inputs))
       ELSE IF ~arg.ref THEN check_for_mutable_refs(Tail(fn_inputs))
       ELSE IF ~arg.mut THEN check_for_mutable_refs(Tail(fn_inputs))
       ELSE "Err"

\* the tokens of the item with its name replaced by `inner`
fn_with_name_inner(f) == <<"fn", "inner", Items[f].params, Items[f].body>>

\* the token texts the model hashes, in a fixed order
TokenTexts == << fn_with_name_inner("pure_function"), fn_with_name_inner("unit"),
                 fn_with_name_inner("impure_function"), fn_with_name_inner("bump"),
                 fn_with_name_inner("pure_function_edited"), fn_with_name_inner("takes_ref"),
                 fn_with_name_inner("fibonacci") >>

\* faulty variant: the digest covers the signature and not the body
hash_signature(tokens) ==
  ToBytes((CHOOSE i \in DOMAIN TokenTexts : TokenTexts[i][3] = tokens[3]) - 1, DigestLen)

\* SHA-256 of the token text: equal texts give equal digests, different texts
\* different digests
hash_token_stream(tokens) ==
  ToBytes((CHOOSE i \in DOMAIN TokenTexts : TokenTexts[i] = tokens) - 1, DigestLen)

inner_fn_hash(f) == hash_token_stream(fn_with_name_inner(f))

\* rkyv::to_bytes(&CacheKey { param: &param, _function_hash }): the typed
\* parameter by value, then the hash
KeyBytes(f, a) == EncodeValue(a) \o inner_fn_hash(f)

\* an argument as the caller holds it: a value living at an address
Arg(addr, val) == [addr |-> addr, val |-> val]

\* faulty variant: the key field archives the reference itself
KeyParamAddress(arg) == arg.addr

\* what the key archives of a parameter: the field is a `&'a T` to the
\* argument (one reference layer stripped from a reference type) archived
\* with InlineAsBox, that is, the value behind the reference
KeyParam(arg) == arg.val

\* the attribute macro applied to item f
cached(f) ==
  IF check_for_mutable_refs(Items[f].params) = "Err" THEN "purity_error" ELSE "expanded"

\* the compiler on the expanded crate: a compile_error! stops the build, and
\* so does an expansion whose nested fn `inner` takes a receiver
Builds(p, r) ==
  /\ \A f \in p : r[f] = "expanded"
  /\ \A f \in p : ~HasReceiver(f)

(***************************************************************************)
(* The store (redb behind the lazily opened DB).                           *)
(***************************************************************************)
None == <<>>
Some(bs) == <<bs>>

AllKeys == UNION { { KeyBytes(f, a) : a \in ArgsOf(f) } : f \in FnNames }
ProgramKeys(p) == UNION { { KeyBytes(f, a) : a \in ArgsOf(f) } : f \in p }

EmptyTable == [k \in AllKeys |-> None]
\* a store file in which CACHE_TABLE was never created
EmptyStore == [tableExists |-> FALSE, tbl |-> EmptyTable]

\* the values an item of the model returns
StaleValues == 0 .. (MaxArg + 1)

\* the value bytes an earlier build may have left under a key: a value
\* archived at the width the return type had in that build
StaleBytes == { ToBytes(v, w) : v \in StaleValues, w \in 0 .. MaxStaleLen }

\* store files left by earlier runs, as far as one run can tell them apart:
\* a call reads and writes the entry under its own key only, so the files
\* differ in one entry, under a key of crate p
StaleStores(p) ==
  { [tableExists |-> TRUE, tbl |-> [EmptyTable EXCEPT ![k] = Some(bs)]] :
      k \in ProgramKeys(p), bs \in StaleBytes }

Entries(store) == { <<k, store.tbl[k][1]>> : k \in {x \in AllKeys : store.tbl[x] # None} }

(***************************************************************************)
(* One call of the wrapper body.                                           *)
(***************************************************************************)
\* (subs: the results of the cached calls the body has made so far; subsKept:
\* each of them hit or committed its result; parent: the call whose body made
\* this call, if any)
NoCall == [f |-> "none", a |-> 0, addr |-> 0, key |-> <<>>, cached |-> None, result |-> -1,
           ran |-> 0, lookup |-> "none", store |-> "none", cold |-> FALSE,
           panic |-> "none", subs |-> <<>>, subsKept |-> TRUE, parent |-> <<>>]

NewCall(f, a, addr) == [NoCall EXCEPT !.f = f, !.a = a, !.addr = addr]

\* what is known of the latest call of a thread that returned, and the
\* process it ran in
NoLast == [f |-> "none", a |-> 0, addr |-> 0, key |-> <<>>, result |-> -1, ran |-> 0,
           kept |-> FALSE, proc |-> 0]

MidCall(t) == pc[t] \notin {"idle", "panicked"}

\* the state of a process before its first call, whatever its store file
Start ==
  /\ reg = [f \in FnNames |-> "pending"]
  /\ binary = "none"
  /\ proc = 0
  /\ fs \in [dirWritable : BOOLEAN, fileExists : BOOLEAN]
  /\ db = "uninit"
  /\ writer = "none"
  /\ pending = EmptyStore
  /\ pc = [t \in Threads |-> "idle"]
  /\ cur = [t \in Threads |-> NoCall]
  /\ last = [t \in Threads |-> NoLast]
  /\ snap = [t \in Threads |-> EmptyStore]
  /\ ncalls = 0

\* a process calling from one thread, on a store file that is missing, new,
\* or left by an earlier run (a file that exists is opened without regard to
\* the directory, so files with entries are tried in a writable one only)
Init ==
  /\ Start
  /\ program \in Programs
  /\ callers = {"t1"}
  /\ committed \in IF fs.fileExists /\ fs.dirWritable
                   THEN {EmptyStore} \cup StaleStores(program)
                   ELSE {EmptyStore}
  /\ hist = Entries(committed)

\* a process calling from every thread, on a store file that is missing or new
InitPar ==
  /\ Start
  /\ fs.dirWritable \/ ~fs.fileExists
  /\ program \in Programs
  /\ callers = Threads
  /\ committed = EmptyStore
  /\ hist = Entries(committed)

\* one thread calling, on a store file that is missing or new; the process
\* may end and the crate may be edited and rebuilt between two runs
InitLife ==
  /\ Start
  /\ fs.dirWritable \/ ~fs.fileExists
  /\ program \in LifePrograms
  /\ callers = {"t1"}
  /\ committed = EmptyStore
  /\ hist = Entries(committed)

\* the recursive function of basic.rs called from main, the store file
\* missing in a writable cache directory
InitFib ==
  /\ Start
  /\ program = {"fibonacci"}
  /\ fs = [dirWritable |-> TRUE, fileExists |-> FALSE]
  /\ callers = {"t1"}
  /\ committed = EmptyStore
  /\ hist = Entries(committed)

runtime == <<proc, callers, fs, db, committed, writer, pending, pc, cur, last, snap, ncalls, hist>>

\* #[cached] expands item f of the crate
Register(f) ==
  /\ f \in program
  /\ reg[f] = "pending"
  /\ reg' = [reg EXCEPT ![f] = cached(f)]
  /\ UNCHANGED <<program, binary, runtime>>

\* the compiler builds the crate once every item is expanded
Compile ==
  /\ binary = "none"
  /\ \A f \in program : reg[f] # "pending"
  /\ binary' = IF Builds(program, reg) THEN "built" ELSE "failed"
  /\ UNCHANGED <<program, reg, runtime>>

(***************************************************************************)
(* Run time: the wrapper body, one step per store operation.               *)
(***************************************************************************)
\* a panic unwinds the calling thread
Panic(t, why) ==
  /\ pc' = [pc EXCEPT ![t] = "panicked"]
  /\ cur' = [cur EXCEPT ![t].panic = why]

\* faulty variant: a key that cannot be encoded is replaced by an empty one
KeyErrIgnored(t, c) ==
  /\ pc' = [pc EXCEPT ![t] = "get_cached"]
  /\ cur' = [cur EXCEPT ![t] = c]

\* lib.rs:191: rkyv::to_bytes(&key).unwrap() on an Err: the call c panics
KeyErr(t, c) ==
  /\ pc' = [pc EXCEPT ![t] = "panicked"]
  /\ cur' = [cur EXCEPT ![t] = [c EXCEPT !.panic = "key"]]

\* faulty variant: the key is salted with a value drawn per process
BuildKeySalted(t, c) ==
  \E encOk \in BOOLEAN :
    IF encOk
    THEN LET key == KeyBytes(c.f, (KeyParam(Arg(c.addr, c.a)) + proc) % (MaxArg + 1)) IN
         /\ cur' = [cur EXCEPT ![t] = [c EXCEPT !.key = key,
                                                !.cold = (committed.tbl[key] = None)]]
         /\ pc' = [pc EXCEPT ![t] = "get_cached"]
    ELSE KeyErr(t, c)

\* lib.rs:186-191: the wrapper builds the key of the call c and encodes it
BuildKey(t, c) ==
  \E encOk \in BOOLEAN :
    IF encOk
    THEN LET key == KeyBytes(c.f, KeyParam(Arg(c.addr, c.a))) IN
         /\ cur' = [cur EXCEPT ![t] = [c EXCEPT !.key = key,
                                                !.cold = (committed.tbl[key] = None)]]
         /\ pc' = [pc EXCEPT ![t] = "get_cached"]
    ELSE KeyErr(t, c)

\* the program calls f on the value a, which lives at address addr
Call(t, f, a, addr) ==
  /\ binary = "built"
  /\ f \in program
  /\ a \in ArgsOf(f)
  /\ addr \in AddrsOf(f)
  /\ t \in callers
  /\ pc[t] = "idle"
  /\ ncalls < MaxCalls
  /\ ncalls' = ncalls + 1
  /\ BuildKey(t, NewCall(f, a, addr))
  /\ UNCHANGED <<program, reg, binary, proc, callers, fs, db, committed, writer, pending, last, snap, hist>>

\* faulty variant: the store file is taken to be creatable in any directory
CanCreateAnywhere(f_s) == TRUE

\* Database::create(db_path) can succeed: the file exists or can be created
CanCreate(f_s) == f_s.fileExists \/ f_s.dirWritable

\* faulty variant: a poisoned Lazy runs its initializer again
ForcedDBRetry(d, dirOk, createOk) ==
  IF d = "open" \/ (dirOk /\ createOk) THEN "open" ELSE "poisoned"

\* the state of the Lazy after a dereference that found it in state d
\* (dirOk, createOk: whether create_dir_all and Database::create succeed)
ForcedDB(d, dirOk, createOk) ==
  CASE d = "open" -> "open"
    [] d = "poisoned" -> "poisoned"
    [] d = "uninit" -> IF dirOk /\ createOk THEN "open" ELSE "poisoned"

\* faulty variant: opening the store file drops the entries of its table
LazyForceTruncating(t) ==
  /\ pc[t] \in {"get_cached", "set_cached"}
  /\ db # "open"
  /\ \E dirOk \in BOOLEAN, createOk \in BOOLEAN :
       /\ createOk => CanCreate(fs)
       /\ db' = ForcedDB(db, dirOk, createOk)
       /\ IF db' = "open"
          THEN /\ fs' = [fs EXCEPT !.fileExists = TRUE]
               /\ committed' = [committed EXCEPT !.tbl = EmptyTable]
               /\ UNCHANGED <<pc, cur>>
          ELSE /\ Panic(t, IF db = "uninit" THEN "store_open" ELSE "poisoned")
               /\ UNCHANGED <<fs, committed>>
  /\ UNCHANGED <<program, reg, binary, proc, callers, writer, pending, last, snap, ncalls, hist>>

\* DB dereferenced (DB.begin_read(), DB.begin_write()) while not yet open:
\* the first access runs the initializer, whose failure panics and poisons
\* the Lazy; an access to a poisoned Lazy panics
LazyForce(t) ==
  /\ pc[t] \in {"get_cached", "set_cached"}
  /\ db # "open"
  /\ \E dirOk \in BOOLEAN, createOk \in BOOLEAN :
       /\ createOk => CanCreate(fs)
       /\ db' = ForcedDB(db, dirOk, createOk)
       /\ IF db' = "open"
          THEN /\ fs' = [fs EXCEPT !.fileExists = TRUE]
               /\ UNCHANGED <<pc, cur>>
          ELSE /\ Panic(t, IF db = "uninit" THEN "store_open" ELSE "poisoned")
               /\ UNCHANGED fs
  /\ UNCHANGED <<program, reg, binary, proc, callers, committed, writer, pending, last, snap, ncalls, hist>>

\* faulty variant: get_cached unwraps its errors instead of mapping them to None
LookupUnwrap(t, why) ==
  IF why = "failed"
  THEN /\ pc' = [pc EXCEPT ![t] = "panicked"]
       /\ cur' = [cur EXCEPT ![t].lookup = why, ![t].panic = "get_cached"]
  ELSE /\ pc' = [pc EXCEPT ![t] = "inner"]
       /\ cur' = [cur EXCEPT ![t].lookup = why, ![t].cached = None]

\* get_cached returns None (lib.rs:35-52): the wrapper goes on to compute
LookupNone(t, why) ==
  /\ pc' = [pc EXCEPT ![t] = "inner"]
  /\ cur' = [cur EXCEPT ![t].lookup = why, ![t].cached = None]

\* faulty variant: a read transaction sees the uncommitted table of the open write
ReadUncommitted == IF writer # "none" THEN pending ELSE committed

\* the table state a read transaction begun now works on
ReadSnapshot == committed

\* lib.rs:28: DB.begin_read()
BeginRead(t) ==
  /\ pc[t] = "get_cached"
  /\ db = "open"
  /\ \E ok \in BOOLEAN :
       IF ok
       THEN /\ snap' = [snap EXCEPT ![t] = ReadSnapshot]
            /\ pc' = [pc EXCEPT ![t] = "read"]
            /\ UNCHANGED cur
       ELSE /\ LookupNone(t, "failed")
            /\ UNCHANGED snap
  /\ UNCHANGED <<program, reg, binary, proc, callers, fs, db, committed, writer, pending, last, ncalls, hist>>

\* lib.rs:29-47: txn.open_table(CACHE_TABLE) and table.get(key_bytes)
ReadTable(t) ==
  /\ pc[t] = "read"
  /\ \E openOk \in BOOLEAN, getOk \in BOOLEAN :
       /\ openOk => snap[t].tableExists
       /\ IF ~openOk \/ ~getOk
          THEN LookupNone(t, "failed")
          ELSE IF snap[t].tbl[cur[t].key] = None
          THEN LookupNone(t, "absent")
          ELSE /\ pc' = [pc EXCEPT ![t] = "access"]
               /\ cur' = [cur EXCEPT ![t].lookup = "found",
                                     ![t].cached = snap[t].tbl[cur[t].key]]
  /\ snap' = [snap EXCEPT ![t] = EmptyStore]
  /\ UNCHANGED <<program, reg, binary, proc, callers, fs, db, committed, writer, pending, last, ncalls, hist>>

\* faulty variant: the decoded value of a hit is stored again before it is returned
AccessThenStore(t) ==
  /\ pc[t] = "access"
  /\ IF AccessOk(cur[t].cached[1])
     THEN /\ pc' = [pc EXCEPT ![t] = "set_cached"]
          /\ cur' = [cur EXCEPT ![t].result = DecodeValue(cur[t].cached[1])]
     ELSE Panic(t, "decode")
  /\ UNCHANGED <<program, reg, binary, proc, callers, fs, db, committed, writer, pending, last, snap, ncalls, hist>>

\* lib.rs:194-197: rkyv::access(..).unwrap(), rkyv::deserialize(..).unwrap(), return
Access(t) ==
  /\ pc[t] = "access"
  /\ IF AccessOk(cur[t].cached[1])
     THEN /\ pc' = [pc EXCEPT ![t] = "done"]
          /\ cur' = [cur EXCEPT ![t].result = DecodeValue(cur[t].cached[1])]
     ELSE Panic(t, "decode")
  /\ UNCHANGED <<program, reg, binary, proc, callers, fs, db, committed, writer, pending, last, snap, ncalls, hist>>

\* faulty variant: inner runs inside the write transaction of the call
InnerInTxn(t) ==
  /\ pc[t] = "inner"
  /\ Len(cur[t].subs) = Len(SubCalls(cur[t].f, cur[t].a))
  /\ writer = "none"
  /\ writer' = t
  /\ pc' = [pc EXCEPT ![t] = "set_cached"]
  /\ cur' = [cur EXCEPT ![t].result = Body(cur[t].f, cur[t].a, cur[t].subs), ![t].ran = @ + 1]
  /\ UNCHANGED <<program, reg, binary, proc, callers, fs, db, committed, pending, last, snap, ncalls, hist>>

\* lib.rs:200-202: let result = inner(..) once every cached call of the body
\* has returned; value_bytes = to_bytes(&result)
Inner(t) ==
  /\ pc[t] = "inner"
  /\ Len(cur[t].subs) = Len(SubCalls(cur[t].f, cur[t].a))
  /\ pc' = [pc EXCEPT ![t] = "set_cached"]
  /\ cur' = [cur EXCEPT ![t].result = Body(cur[t].f, cur[t].a, cur[t].subs), ![t].ran = @ + 1]
  /\ UNCHANGED <<program, reg, binary, proc, callers, fs, db, committed, writer, pending, last, snap, ncalls, hist>>

\* faulty variant: the wrapper unwraps the result of set_cached
SetCachedUnwrap(t, step) ==
  /\ pc' = [pc EXCEPT ![t] = "panicked"]
  /\ cur' = [cur EXCEPT ![t].store = step, ![t].panic = "set_cached"]

\* lib.rs:203-205: `let _ = set_cached(..)` returned Err: the result is returned
\* (step: the operation of set_cached whose `?` returned the error)
SetCachedErr(t, step) ==
  /\ pc' = [pc EXCEPT ![t] = "done"]
  /\ cur' = [cur EXCEPT ![t].store = step]

\* the write transaction of t is dropped without commit
Abort(t, step) ==
  /\ writer' = "none"
  /\ pending' = EmptyStore
  /\ SetCachedErr(t, step)
  /\ UNCHANGED <<committed, hist>>

\* lib.rs:61: DB.begin_write()?  (waits while another write transaction is open)
BeginWrite(t) ==
  /\ pc[t] = "set_cached"
  /\ db = "open"
  /\ \E ok \in BOOLEAN :
       IF ok
       THEN /\ writer = "none"
            /\ writer' = t
            /\ pending' = committed
            /\ pc' = [pc EXCEPT ![t] = "open_table"]
            /\ UNCHANGED cur
       ELSE /\ SetCachedErr(t, "begin_write")
            /\ UNCHANGED <<writer, pending>>
  /\ UNCHANGED <<program, reg, binary, proc, callers, fs, db, committed, last, snap, ncalls, hist>>

\* lib.rs:63: write_txn.open_table(CACHE_TABLE)?  (creates the table)
OpenTable(t) ==
  /\ pc[t] = "open_table"
  /\ \E ok \in BOOLEAN :
       IF ok
       THEN /\ pending' = [pending EXCEPT !.tableExists = TRUE]
            /\ pc' = [pc EXCEPT ![t] = "insert"]
            /\ UNCHANGED <<cur, writer, committed, hist>>
       ELSE Abort(t, "open_table")
  /\ UNCHANGED <<program, reg, binary, proc, callers, fs, db, last, snap, ncalls>>

\* faulty variant: the insert is lost
InsertedNothing(tbl, key, value) == tbl

\* faulty variant: the insert stores the value without its last byte
InsertedTruncated(tbl, key, value) ==
  [tbl EXCEPT ![key] = <<SubSeq(value, 1, Len(value) - 1)>>]

\* faulty variant: the insert evicts the entries of all other keys
InsertedEvicting(tbl, key, value) ==
  [k \in DOMAIN tbl |-> IF k = key THEN Some(value) ELSE None]

\* the table after table.insert(key, value)
Inserted(tbl, key, value) == [tbl EXCEPT ![key] = Some(value)]

\* lib.rs:64: table.insert(key, value)?
Insert(t) ==
  /\ pc[t] = "insert"
  /\ \E ok \in BOOLEAN :
       IF ok
       THEN /\ pending' = [pending EXCEPT
                             !.tbl = Inserted(@, cur[t].key, EncodeValue(cur[t].result))]
            /\ pc' = [pc EXCEPT ![t] = "commit"]
            /\ UNCHANGED <<cur, writer, committed, hist>>
       ELSE Abort(t, "insert")
  /\ UNCHANGED <<program, reg, binary, proc, callers, fs, db, last, snap, ncalls>>

\* lib.rs:66: write_txn.commit()?
Commit(t) ==
  /\ pc[t] = "commit"
  /\ \E ok \in BOOLEAN :
       IF ok
       THEN /\ committed' = pending
            /\ hist' = hist \cup Entries(pending)
            /\ writer' = "none"
            /\ pending' = EmptyStore
            /\ pc' = [pc EXCEPT ![t] = "done"]
            /\ cur' = [cur EXCEPT ![t].store = "committed"]
       ELSE Abort(t, "commit")
  /\ UNCHANGED <<program, reg, binary, proc, callers, fs, db, last, snap, ncalls>>

\* the call c hit or committed its result, and so did the calls of its body
Kept(c) == (c.lookup = "found" \/ c.store = "committed") /\ c.subsKept

\* the body of the call of t calls a cached function: the wrapper of that
\* call builds its key (lib.rs:173, 186-191; the body names the outer function)
InnerCall(t) ==
  /\ pc[t] = "inner"
  /\ Len(cur[t].subs) < Len(SubCalls(cur[t].f, cur[t].a))
  /\ BuildKey(t, [NewCall(cur[t].f, SubCalls(cur[t].f, cur[t].a)[Len(cur[t].subs) + 1], 0)
                    EXCEPT !.parent = <<cur[t]>>])
  /\ UNCHANGED <<program, reg, binary, proc, callers, fs, db, committed, writer, pending, last, snap, ncalls, hist>>

\* lib.rs:197, 205: the wrapper returns its result to the body that called it
SubReturn(t) ==
  /\ pc[t] = "done"
  /\ cur[t].parent # <<>>
  /\ pc' = [pc EXCEPT ![t] = "inner"]
  /\ cur' = [cur EXCEPT ![t] = [cur[t].parent[1] EXCEPT
                                  !.subs = Append(@, cur[t].result),
                                  !.subsKept = @ /\ Kept(cur[t])]]
  /\ UNCHANGED <<program, reg, binary, proc, callers, fs, db, committed, writer, pending, last, snap, ncalls, hist>>

\* lib.rs:197, 205: the wrapper returns its result to the caller
Return(t) ==
  /\ pc[t] = "done"
  /\ cur[t].parent = <<>>
  /\ pc' = [pc EXCEPT ![t] = "idle"]
  /\ last' = [last EXCEPT ![t] =
                [f |-> cur[t].f, a |-> cur[t].a, addr |-> cur[t].addr, key |-> cur[t].key,
                 result |-> cur[t].result, ran |-> cur[t].ran,
                 kept |-> Kept(cur[t]),
                 proc |-> proc]]
  /\ cur' = [cur EXCEPT ![t] = NoCall]
  /\ UNCHANGED <<program, reg, binary, proc, callers, fs, db, committed, writer, pending, snap, ncalls, hist>>

\* the process ends after a call returned, no call being under way; the
\* store file stays
ProcessEnds ==
  /\ binary = "built"
  /\ \A t \in Threads : pc[t] = "idle"
  /\ \E t \in Threads : last[t].f # "none" /\ last[t].proc = proc
  /\ proc < MaxRestarts
  /\ ncalls < MaxCalls
  /\ proc' = proc + 1
  /\ db' = "uninit"
  /\ writer' = "none"
  /\ pending' = EmptyStore
  /\ pc' = [t \in Threads |-> "idle"]
  /\ cur' = [t \in Threads |-> NoCall]
  /\ snap' = [t \in Threads |-> EmptyStore]
  /\ UNCHANGED <<callers, fs, committed, last, ncalls, hist>>

\* the program is run again: a new process, the static DB not yet forced
Exit ==
  /\ ProcessEnds
  /\ UNCHANGED <<program, reg, binary>>

\* the body of item f is edited, and the crate is built and run again
Edit(f) ==
  /\ f \in program
  /\ f \in DOMAIN Edits
  /\ ProcessEnds
  /\ program' = (program \ {f}) \cup {Edits[f]}
  /\ reg' = [g \in FnNames |-> "pending"]
  /\ binary' = "none"

Next ==
  \/ \E f \in FnNames : Register(f)
  \/ Compile
  \/ \E t \in Threads, f \in FnNames, a \in Args : Call(t, f, a, 0)
  \/ \E t \in Threads : LazyForce(t)
  \/ \E t \in Threads : BeginRead(t)
  \/ \E t \in Threads : ReadTable(t)
  \/ \E t \in Threads : Access(t)
  \/ \E t \in Threads : Inner(t)
  \/ \E t \in Threads : BeginWrite(t)
  \/ \E t \in Threads : OpenTable(t)
  \/ \E t \in Threads : Insert(t)
  \/ \E t \in Threads : Commit(t)
  \/ \E t \in Threads : Return(t)

Spec == Init /\ [][Next]_vars

SpecPar == InitPar /\ [][Next]_vars

\* the steps of successive runs, calls passing arguments at any address
NextLife ==
  \/ \E f \in FnNames : Register(f)
  \/ Compile
  \/ \E t \in Threads, f \in FnNames, a \in Args, addr \in Addrs : Call(t, f, a, addr)
  \/ \E t \in Threads : LazyForce(t)
  \/ \E t \in Threads : BeginRead(t)
  \/ \E t \in Threads : ReadTable(t)
  \/ \E t \in Threads : Access(t)
  \/ \E t \in Threads : Inner(t)
  \/ \E t \in Threads : BeginWrite(t)
  \/ \E t \in Threads : OpenTable(t)
  \/ \E t \in Threads : Insert(t)
  \/ \E t \in Threads : Commit(t)
  \/ \E t \in Threads : Return(t)
  \/ Exit
  \/ \E f \in FnNames : Edit(f)

SpecLife == InitLife /\ [][NextLife]_vars

\* the steps of thread t inside a call, the grant of the write lock apart
Progress(t) ==
  \/ LazyForce(t)
  \/ BeginRead(t)
  \/ ReadTable(t)
  \/ Access(t)
  \/ InnerCall(t)
  \/ Inner(t)
  \/ OpenTable(t)
  \/ Insert(t)
  \/ Commit(t)
  \/ SubReturn(t)
  \/ Return(t)

\* DB.begin_write() returns the write transaction to t
WriteGranted(t) == BeginWrite(t) /\ writer' = t

\* the steps of a program whose cached function calls itself
NextFib ==
  \/ \E f \in FnNames : Register(f)
  \/ Compile
  \/ \E t \in Threads, f \in FnNames, a \in 0 .. MaxFib : Call(t, f, a, 0)
  \/ \E t \in Threads : Progress(t)
  \/ \E t \in Threads : BeginWrite(t)

\* every thread goes on with the call it is in; the store grants the write
\* lock to a thread that keeps asking for it
Fairness == \A t \in Threads : WF_vars(Progress(t)) /\ SF_vars(WriteGranted(t))

SpecFib == InitFib /\ [][NextFib]_vars /\ Fairness

(***************************************************************************)
(* Properties.                                                             *)
(***************************************************************************)
Returned(t) == pc[t] = "done"
Correct(t) == cur[t].result = inner(cur[t].f, cur[t].a)
StoreFailed(t) == cur[t].store \in {"begin_write", "open_table", "insert", "commit"}

\* t is in the second of two successive calls f(a), f(a), and no other
\* thread makes calls
SecondOfTwo(t) ==
  /\ callers = {t}
  /\ MidCall(t)
  /\ last[t].f = cur[t].f
  /\ last[t].a = cur[t].a

\* C1 (as stated): of two successive calls f(a), f(a) the second returns the
\* result of the first without executing inner, and inner runs exactly once
\* over the two calls.
C1_TwoCallsRunInnerOnce ==
  \A t \in Threads :
    (SecondOfTwo(t) /\ Returned(t)) =>
      /\ cur[t].result = last[t].result
      /\ cur[t].ran = 0
      /\ last[t].ran + cur[t].ran = 1

\* C1 (amended): of two successive calls f(a), f(a) with no other call in
\* between, where the first call left an entry under the key (it was a hit
\* or its set_cached committed) and the lookup of the second does not fail,
\* the second finds the entry, decodes it, returns the result of the first
\* and does not execute inner; inner runs at most once over the two calls.
C1_SecondCallHits ==
  \A t \in Threads :
    (SecondOfTwo(t) /\ last[t].kept /\ cur[t].lookup \in {"found", "absent"}) =>
      /\ cur[t].lookup = "found"
      /\ pc[t] \in {"access", "done"}
      /\ Returned(t) => /\ cur[t].result = last[t].result
                        /\ cur[t].ran = 0
                        /\ last[t].ran + cur[t].ran <= 1

\* a second call f(a) that hits on the entry the first call computed and committed
C1_Witness ==
  \E t \in Threads :
    /\ SecondOfTwo(t) /\ Returned(t)
    /\ last[t].kept /\ last[t].ran = 1
    /\ cur[t].lookup = "found" /\ cur[t].ran = 0
    /\ cur[t].result = last[t].result

\* C2: every call that returns, returns the value the underlying computation
\* produces for its arguments, whatever the store held.
C2_CacheIsAdvisory ==
  \A t \in Threads : Returned(t) => Correct(t)

\* C3: a found entry whose bytes do not decode is treated as a miss: the
\* call computes, returns the computed result, and does not panic.
C3_DecodeFailureIsMiss ==
  \A t \in Threads :
    (cur[t].lookup = "found" /\ ~AccessOk(cur[t].cached[1]) /\ pc[t] # "access") =>
      /\ pc[t] # "panicked"
      /\ Returned(t) => (cur[t].ran = 1 /\ Correct(t))

\* C4 (as stated): with an unwritable cache directory no call panics and every
\* call that returns, returns the freshly computed correct result.
C4_UnwritableDirIsHarmless ==
  \A t \in Threads :
    ~fs.dirWritable =>
      /\ pc[t] # "panicked"
      /\ Returned(t) => Correct(t)

\* with an unwritable directory and no store file nothing gets past the
\* store access; a call whose set_cached failed has returned what it computed
UnwritableDirState ==
  \A t \in Threads :
    ~fs.dirWritable =>
      /\ ~fs.fileExists =>
           /\ db # "open"
           /\ pc[t] \in {"idle", "get_cached", "panicked"}
           /\ cur[t].ran = 0
           /\ pc[t] = "panicked" => cur[t].panic \in {"key", "store_open", "poisoned"}
      /\ StoreFailed(t) =>
           /\ Returned(t)
           /\ cur[t].ran = 1
           /\ Correct(t)
           /\ cur[t].panic = "none"

\* with an unwritable directory a missing store file is never created or opened
UnwritableDirStep ==
  (~fs.dirWritable /\ ~fs.fileExists) => (~fs'.fileExists /\ db' # "open")

\* C4 (amended): with an unwritable cache directory, if the store file does
\* not exist it cannot be created: the first access panics (store-open failure
\* is fatal) and no call computes or returns; once the store is open, a call
\* whose set_cached fails returns the freshly computed result and no error or
\* panic of the store write reaches the caller.
C4_UnwritableDir == [](UnwritableDirState) /\ [][UnwritableDirStep]_vars

\* the directory is unwritable, the store file existed and opened, set_cached
\* failed and the call returned what it computed
C4_Witness ==
  \E t \in Threads :
    /\ ~fs.dirWritable /\ fs.fileExists /\ db = "open"
    /\ StoreFailed(t) /\ Returned(t) /\ cur[t].ran = 1 /\ Correct(t)

\* C5: get_cached propagates no error: a failure of begin_read, open_table
\* (the table may not exist yet) or get gives None, as an absent key does,
\* and the wrapper goes on to the computation.
C5_LookupFailureIsNone ==
  \A t \in Threads :
    cur[t].lookup = "failed" =>
      /\ cur[t].cached = None
      /\ cur[t].panic = "none"
      /\ pc[t] \in {"inner", "set_cached", "open_table", "insert", "commit", "done"}

\* get_cached gave None on a store whose table was never created
C5_Witness ==
  \E t \in Threads :
    /\ cur[t].lookup = "failed" /\ pc[t] = "inner"
    /\ db = "open" /\ ~committed.tableExists

\* C6: on a miss, a failure of set_cached at begin_write, open_table, insert
\* or commit is swallowed: the call returns the result it computed, having
\* run inner exactly once, and the caller sees no error.
C6_StoreErrorSwallowed ==
  \A t \in Threads :
    StoreFailed(t) =>
      /\ Returned(t)
      /\ cur[t].panic = "none"
      /\ cur[t].ran = 1
      /\ cur[t].result = inner(cur[t].f, cur[t].a)

\* the commit of a call failed and the call returned what it computed
C6_Witness ==
  \E t \in Threads :
    /\ cur[t].store = "commit" /\ Returned(t)
    /\ cur[t].ran = 1 /\ Correct(t)

\* C7: a failure to create the cache directory or the store file on first
\* access is fatal: the accessing call panics having neither computed nor
\* returned, and afterwards no call gets past its store access.
C7_StoreOpenFailureIsFatal ==
  /\ \A t \in Threads :
       cur[t].panic = "store_open" =>
         /\ pc[t] = "panicked"
         /\ cur[t].ran = 0
         /\ cur[t].result = -1
         /\ db = "poisoned"
  /\ db = "poisoned" =>
       \A t \in Threads :
         /\ pc[t] \in {"idle", "get_cached", "panicked"}
         /\ pc[t] = "panicked" => (cur[t].ran = 0 /\ cur[t].result = -1)

\* the first access failed to open the store and a later access panicked too
C7_Witness ==
  \E t, u \in Threads :
    /\ db = "poisoned"
    /\ pc[t] = "panicked" /\ cur[t].panic = "store_open"
    /\ pc[u] = "panicked" /\ cur[u].panic = "poisoned"

\* C8: an item with a parameter that is a mutable alias is rejected by the
\* macro with the purity error, and no call of it reaches the store.
C8_MutableAliasIsPurityError ==
  \A f \in program :
    HasMutableAlias(f) =>
      /\ reg[f] # "pending" => reg[f] = "purity_error"
      /\ \A t \in Threads : cur[t].f # f

\* both threads are in a call with the same key, absent when each began
ParallelColdPair(t, u) ==
  /\ t # u
  /\ Returned(t) /\ Returned(u)
  /\ cur[t].key = cur[u].key
  /\ cur[t].cold /\ cur[u].cold

\* C9 (as stated): two parallel calls with the same uncached arguments both
\* return the correct value and leave the complete encoding of it under the key.
C9_ParallelCallsLeaveEntry ==
  \A t, u \in Threads :
    ParallelColdPair(t, u) =>
      /\ Correct(t) /\ Correct(u)
      /\ committed.tbl[cur[t].key] = Some(EncodeValue(inner(cur[t].f, cur[t].a)))

\* C9 (amended): two parallel calls with the same uncached arguments that
\* return, both return the correct value; the store then holds under the key
\* the complete encoding of that value if the set_cached of either committed,
\* and no entry if both failed.
C9_ParallelCalls ==
  \A t, u \in Threads :
    ParallelColdPair(t, u) =>
      /\ Correct(t) /\ Correct(u)
      /\ committed.tbl[cur[t].key] =
           IF cur[t].store = "committed" \/ cur[u].store = "committed"
           THEN Some(EncodeValue(inner(cur[t].f, cur[t].a)))
           ELSE None

\* both callers missed, both computed and both committed
C9_Witness ==
  \E t, u \in Threads :
    /\ ParallelColdPair(t, u)
    /\ cur[t].ran = 1 /\ cur[u].ran = 1
    /\ cur[t].store = "committed" /\ cur[u].store = "committed"

\* what get_cached handed to the wrapper is nothing or a committed value
ReadsCommitted ==
  \A t \in Threads :
    /\ cur[t].cached # None => <<cur[t].key, cur[t].cached[1]>> \in hist
    /\ pc[t] = "read" =>
         \A k \in AllKeys : snap[t].tbl[k] # None => <<k, snap[t].tbl[k][1]>> \in hist

\* a set_cached that returns an error leaves the committed store as it was
FailedWriteChangesNothing ==
  \A t \in Threads :
    (pc[t] \in {"set_cached", "open_table", "insert", "commit"}
       /\ pc'[t] = "done" /\ cur'[t].store # "committed")
    => committed' = committed

\* C10: get_cached returns None or the complete value bytes of a committed
\* set_cached on that key, also while a set_cached is under way (pre-write or
\* post-write state), and a set_cached that fails leaves the store unchanged.
C10_SetCachedAtomic == [](ReadsCommitted) /\ [][FailedWriteChangesNothing]_vars

\* a get_cached that ran alongside the set_cached of another thread: the key
\* was absent when the reader's call began and the reader found the whole
\* value the writer committed
C10_Witness ==
  \E t, u \in Threads :
    /\ t # u
    /\ cur[t].key = cur[u].key
    /\ cur[t].cold /\ cur[u].cold
    /\ cur[u].store = "committed"
    /\ pc[t] = "access" /\ cur[t].lookup = "found"
    /\ cur[t].cached = Some(EncodeValue(cur[u].result))

(***************************************************************************)
(* Keys, fingerprints and restarts (under SpecLife).                       *)
(***************************************************************************)
Fingerprints == { inner_fn_hash(f) : f \in FnNames }

\* the key as a function of the fingerprint and the argument value
KeyOf == [fp \in Fingerprints, a \in Args |-> EncodeValue(a) \o fp]

SecondRefCall(t) ==
  /\ MidCall(t)
  /\ cur[t].f \in FnNames
  /\ ByRef(cur[t].f)
  /\ last[t].f = cur[t].f

\* C12 (as stated): a parameter passed by shared reference is keyed by the
\* value behind it and never by its address: a call passing a reference at
\* another address to an equal value builds the key of the previous call and
\* is a hit; a call passing the same address holding a different value
\* builds a different key.
C12_ReferenceSecondCallHits ==
  \A t \in Threads :
    SecondRefCall(t) =>
      /\ (last[t].addr # cur[t].addr /\ last[t].a = cur[t].a) =>
           /\ cur[t].key = last[t].key
           /\ cur[t].lookup \in {"none", "found"}
      /\ (last[t].addr = cur[t].addr /\ last[t].a # cur[t].a) =>
           cur[t].key # last[t].key

\* C12 (amended): a parameter passed by shared reference is keyed by the
\* value behind it and never by its address: a call passing a reference at
\* another address to an equal value builds the key of the previous call, so
\* that it is a hit whenever the previous call left its entry (it hit, or
\* its set_cached committed) and the lookup does not fail, and then returns
\* the same result without computing; a call passing the same address
\* holding a different value builds a different key.
C12_ReferenceKeyedByValue ==
  \A t \in Threads :
    SecondRefCall(t) =>
      /\ (last[t].addr # cur[t].addr /\ last[t].a = cur[t].a) =>
           /\ cur[t].key = last[t].key
           /\ (last[t].kept /\ cur[t].lookup \in {"found", "absent"}) =>
                cur[t].lookup = "found"
           /\ (last[t].kept /\ cur[t].lookup = "found" /\ Returned(t)) =>
                (cur[t].ran = 0 /\ cur[t].result = last[t].result)
      /\ (last[t].addr = cur[t].addr /\ last[t].a # cur[t].a) =>
           cur[t].key # last[t].key

\* a call passing a reference at another address to an equal value hit on
\* the entry of the previous call
C12_Witness ==
  \E t \in Threads :
    /\ SecondRefCall(t) /\ Returned(t)
    /\ last[t].addr # cur[t].addr /\ last[t].a = cur[t].a
    /\ last[t].ran = 1 /\ last[t].kept
    /\ cur[t].lookup = "found" /\ cur[t].ran = 0

\* t is in the first call of an edited item, with the argument of the last
\* call of the item as it was before the edit, which left its entry
FirstCallAfterEdit(t) ==
  /\ MidCall(t)
  /\ last[t].f \in DOMAIN Edits
  /\ cur[t].f = Edits[last[t].f]
  /\ last[t].a = cur[t].a
  /\ last[t].kept

\* an edit and rebuild of the crate clears nothing in the store
EditKeepsStore == (program' # program) => (committed' = committed)

\* C13: an edit of the body of a cached function changes its fingerprint: a
\* call with an argument that hit before the edit builds another key, misses
\* and recomputes, no step having cleared the store; the entry written under
\* the old fingerprint stays in the store, and no call of the edited function
\* builds the key of an old entry.
C13_FingerprintSensitivity ==
  /\ [](/\ \A f \in DOMAIN Edits : inner_fn_hash(Edits[f]) # inner_fn_hash(f)
        /\ \A t \in Threads :
             /\ FirstCallAfterEdit(t) =>
                  /\ cur[t].key # last[t].key
                  /\ committed.tbl[last[t].key] # None
                  /\ cur[t].lookup # "found"
                  /\ Returned(t) => (cur[t].ran = 1 /\ Correct(t))
             /\ \A f \in DOMAIN Edits :
                  (MidCall(t) /\ cur[t].f = Edits[f]) =>
                    cur[t].key \notin { KeyBytes(f, b) : b \in ArgsOf(f) })
  /\ [][EditKeepsStore]_vars

\* the first call after the edit missed, recomputed and returned, the entry
\* of the old fingerprint still in the store beside the new one
C13_Witness ==
  \E t \in Threads :
    /\ FirstCallAfterEdit(t) /\ Returned(t)
    /\ cur[t].lookup = "absent" /\ cur[t].ran = 1
    /\ cur[t].store = "committed"
    /\ committed.tbl[last[t].key] # None
    /\ committed.tbl[cur[t].key] # None

\* t is in a call f(a) in a process started after the one in which its
\* previous call, also f(a), computed and committed its result
SameCallAfterRestart(t) ==
  /\ MidCall(t)
  /\ last[t].f = cur[t].f
  /\ last[t].a = cur[t].a
  /\ last[t].proc < proc
  /\ last[t].ran = 1 /\ last[t].kept

\* C16 (as stated): after a call f(a) whose store committed, a call f(a)
\* with the same fingerprint in a later process that opened the same store
\* file is a hit: it returns the same result without executing inner.
C16_RestartedCallHits ==
  \A t \in Threads :
    (SameCallAfterRestart(t) /\ db = "open") =>
      /\ cur[t].lookup \in {"none", "found"}
      /\ Returned(t) => (cur[t].result = last[t].result /\ cur[t].ran = 0)

\* C16 (amended): a cached result survives the end of the process: after a
\* call f(a) whose store committed, a call f(a) with the same fingerprint in
\* a later process that opened the same store file and whose lookup does not
\* fail is a hit: it returns the same result without executing inner.
C16_SurvivesRestart ==
  \A t \in Threads :
    (SameCallAfterRestart(t) /\ cur[t].lookup \in {"found", "absent"}) =>
      /\ cur[t].lookup = "found"
      /\ pc[t] \in {"access", "done"}
      /\ Returned(t) => (cur[t].result = last[t].result /\ cur[t].ran = 0)

\* the call in the later process returned the stored result without computing
C16_Witness ==
  \E t \in Threads :
    /\ SameCallAfterRestart(t) /\ Returned(t)
    /\ cur[t].lookup = "found" /\ cur[t].ran = 0
    /\ cur[t].result = last[t].result

\* C19: calls of two cached functions with distinct names never build the
\* same key bytes, even on equal arguments, so that an entry written by one
\* is never found by the other.
C19_KeyUniquePerFunction ==
  \A t \in Threads :
    (/\ MidCall(t)
     /\ cur[t].f \in FnNames
     /\ last[t].f \in FnNames
     /\ Items[last[t].f].name # Items[cur[t].f].name) =>
      /\ cur[t].key # last[t].key
      /\ (last[t].ran = 1 /\ last[t].kept /\ last[t].a = cur[t].a) => cur[t].lookup # "found"

(***************************************************************************)
(* The life of an entry (under Spec).                                      *)
(***************************************************************************)
\* every entry the store ever held has its key in the store
CommittedKeysStay == \A e \in hist : committed.tbl[e[1]] # None

\* a step that changes what the store holds under a key is the commit of a
\* set_cached on that key, which leaves under it the whole value of the call
EntryChangesAreCommits ==
  \A k \in AllKeys :
    committed'.tbl[k] # committed.tbl[k] =>
      \E t \in Threads :
        /\ pc[t] = "commit" /\ cur'[t].store = "committed"
        /\ cur[t].key = k
        /\ committed'.tbl[k] = Some(EncodeValue(cur[t].result))

\* C14: entries are never evicted or expired: a key that a committed
\* set_cached (or an earlier run) put in the store is in the store in every
\* later state; the only change ever made under a key is the replacement of
\* the whole value by a committed set_cached on that key, which leaves the
\* entries of all other keys as they were.
C14_EntriesNeverEvicted == [](CommittedKeysStay) /\ [][EntryChangesAreCommits]_vars

\* a set_cached committed beside the entry of another key, which is still
\* there, and the value of an entry has been replaced by a committed set_cached
C14_Witness ==
  \E t \in Threads :
    /\ cur[t].store = "committed"
    /\ \E k \in AllKeys : k # cur[t].key /\ committed.tbl[k] # None
    /\ \E e \in hist : committed.tbl[e[1]] \notin {None, Some(e[2])}

(***************************************************************************)
(* The order of a call (under Spec).                                       *)
(***************************************************************************)
\* t made a call for which no key was built
KeyBuildFailed(t) == cur[t].f # "none" /\ cur[t].key = <<>>

\* C17: when the key of a call cannot be encoded the call ends there with a
\* panic, which the caller sees: no lookup was made (no transaction, nothing
\* read), the underlying computation was not invoked, no result is returned
\* and no set_cached was attempted.
C17_KeyFailureStopsCall ==
  \A t \in Threads :
    KeyBuildFailed(t) =>
      /\ pc[t] = "panicked"
      /\ cur[t].panic = "key"
      /\ cur[t].lookup = "none" /\ cur[t].cached = None
      /\ snap[t] = EmptyStore
      /\ cur[t].ran = 0 /\ cur[t].result = -1
      /\ cur[t].store = "none" /\ writer # t

\* the key build of a call failed in a process whose store is open and
\* holds the entry of an earlier call, which is all the store holds
C17_Witness ==
  \E t \in Threads :
    /\ KeyBuildFailed(t) /\ pc[t] = "panicked"
    /\ db = "open"
    /\ last[t].ran = 1 /\ last[t].kept
    /\ Entries(committed) = { <<last[t].key, EncodeValue(last[t].result)>> }

Missed(t) == cur[t].lookup \in {"absent", "failed"}
InSetCached(t) == pc[t] \in {"set_cached", "open_table", "insert", "commit"}

\* where a call stands tells what it has done: the lookup comes after the
\* key build, inner after a miss only, set_cached after inner only
CallOrder ==
  \A t \in Threads :
    /\ pc[t] \in {"get_cached", "read"} =>
         /\ cur[t].key # <<>>
         /\ cur[t].lookup = "none" /\ cur[t].ran = 0 /\ cur[t].store = "none"
    /\ pc[t] = "access" =>
         cur[t].lookup = "found" /\ cur[t].ran = 0 /\ cur[t].store = "none"
    /\ pc[t] = "inner" =>
         Missed(t) /\ cur[t].ran = 0 /\ cur[t].store = "none"
    /\ InSetCached(t) =>
         Missed(t) /\ cur[t].ran = 1 /\ cur[t].store = "none"
    /\ pc[t] = "done" =>
         IF cur[t].lookup = "found"
         THEN cur[t].ran = 0 /\ cur[t].store = "none"
         ELSE Missed(t) /\ cur[t].ran = 1 /\ cur[t].store # "none"

\* the steps of a call: inner is entered from the lookup, set_cached from
\* inner, once; the key of the call never changes and is the key inserted; a
\* call that hit writes nothing
CallSteps ==
  \A t \in Threads :
    /\ (pc'[t] = "inner" /\ pc[t] # "inner") => pc[t] \in {"get_cached", "read"}
    /\ (pc'[t] = "set_cached" /\ pc[t] # "set_cached") =>
         (pc[t] = "inner" /\ cur'[t].ran = cur[t].ran + 1)
    /\ (InSetCached(t) /\ ~InSetCached(t)') => pc'[t] = "done"
    /\ (MidCall(t) /\ cur[t].key # <<>> /\ pc'[t] # "idle") => cur'[t].key = cur[t].key
    /\ (pc[t] = "insert" /\ pc'[t] = "commit") =>
         pending'.tbl = [pending.tbl EXCEPT ![cur[t].key] = Some(EncodeValue(cur[t].result))]
    /\ (cur[t].lookup = "found" /\ pc'[t] # pc[t]) =>
         (committed' = committed /\ pending' = pending /\ writer' = writer)

\* C18: every call builds its key, then looks it up, then either hits or
\* misses: on a hit inner is invoked zero times, no set_cached is attempted
\* and the store is left as it was; on a miss inner is invoked exactly once
\* and set_cached is attempted exactly once, after inner has returned and
\* with the key built at the start of the call.
C18_CallOrder == [](CallOrder) /\ [][CallSteps]_vars

\* a call that missed, computed once and committed under its key, made
\* after a call that hit without computing
C18_Witness ==
  \E t \in Threads :
    /\ Returned(t) /\ Missed(t)
    /\ cur[t].ran = 1 /\ cur[t].store = "committed"
    /\ committed.tbl[cur[t].key] = Some(EncodeValue(cur[t].result))
    /\ last[t].f # "none" /\ last[t].ran = 0 /\ last[t].kept

(***************************************************************************)
(* A cached function that calls itself (under SpecFib).                    *)
(***************************************************************************)
TopLevel(t) == cur[t].f = "fibonacci" /\ cur[t].parent = <<>>

\* t returned from the first call of the run, its set_cached and those of
\* all the calls of its body committed
FirstCallKept(t) == TopLevel(t) /\ Returned(t) /\ ncalls = 1 /\ Kept(cur[t])

\* the store holds the Fibonacci number of every input 0 .. n
Populated(n) ==
  \A k \in 0 .. n : committed.tbl[KeyBytes("fibonacci", k)] = Some(EncodeValue(Fib(k)))

\* t is in the second call of the run, with an input up to that of the
\* first, which t made and which kept all its results; its lookup read the store
SecondCallBelow(t) ==
  /\ TopLevel(t) /\ MidCall(t) /\ ncalls = 2
  /\ last[t].f = "fibonacci" /\ last[t].kept /\ last[t].ran = 1
  /\ cur[t].a <= last[t].a
  /\ cur[t].lookup \in {"found", "absent"}

\* the call of t is a hit that makes no call and does not compute
HitWithoutComputing(t) ==
  /\ cur[t].lookup = "found"
  /\ pc[t] \in {"access", "done"}
  /\ cur[t].subs = <<>> /\ cur[t].ran = 0
  /\ Returned(t) => cur[t].result = Fib(cur[t].a)

\* C15 (as stated): on an empty store with all stores succeeding, a call of
\* the memoized recursive Fibonacci function with input n leaves an entry
\* with the correct value for every input 0 .. n, and a call after it with
\* an input m <= n is a hit that computes nothing.
C15_FibonacciPopulatesAll ==
  \A t \in Threads :
    /\ FirstCallKept(t) => (cur[t].result = Fib(cur[t].a) /\ Populated(cur[t].a))
    /\ SecondCallBelow(t) => HitWithoutComputing(t)

\* C15 (amended): the same for every input n other than 1: the call with
\* input 1 matches the arm `1 => 1`, makes no call with input 0 and leaves
\* the entry of input 1 alone, so that a call with input 0 after it misses.
C15_FibonacciMemoized ==
  \A t \in Threads :
    /\ FirstCallKept(t) =>
         /\ cur[t].result = Fib(cur[t].a)
         /\ Populated(IF cur[t].a = 1 THEN -1 ELSE cur[t].a)
         /\ committed.tbl[cur[t].key] = Some(EncodeValue(Fib(cur[t].a)))
    /\ (SecondCallBelow(t) /\ (last[t].a # 1 \/ cur[t].a = 1)) => HitWithoutComputing(t)

\* after fibonacci(MaxFib) filled the store, a call with a smaller input
\* returned the stored value without computing
C15_Witness ==
  \E t \in Threads :
    /\ TopLevel(t) /\ Returned(t) /\ ncalls = 2
    /\ last[t].f = "fibonacci" /\ last[t].a = MaxFib /\ last[t].kept /\ last[t].ran = 1
    /\ cur[t].a < last[t].a
    /\ cur[t].lookup = "found" /\ cur[t].ran = 0 /\ cur[t].subs = <<>>
    /\ Populated(MaxFib)

\* a thread holds the write transaction inside set_cached only, and a read
\* snapshot inside get_cached only: none while inner runs, in this call or
\* in a call whose body is waiting for this one
NoTransactionOutsideStore ==
  \A t \in Threads :
    /\ writer = t => pc[t] \in {"open_table", "insert", "commit"}
    /\ snap[t] # EmptyStore => pc[t] = "read"
    /\ pc[t] = "inner" => (writer # t /\ snap[t] = EmptyStore)

\* a panic is the panic of a call that has not run inner (on its key, or on
\* opening the store)
PanicsBeforeInner ==
  \A t \in Threads : pc[t] = "panicked" => (cur[t].ran = 0 /\ cur[t].panic # "none")

\* every call ends: it returns or panics
CallsEnd == \A t \in Threads : [](MidCall(t) => <>(pc[t] \in {"idle", "panicked"}))

====
